---- MODULE Spec2Model ----
(***************************************************************************)
(* Model of src/tavily_search.py: a Streamlit chat page driving a          *)
(* LangChain zero-shot ReAct agent (Gemini + Tavily tools).                *)
(*                                                                         *)
(* The script is executed top to bottom on every page event (first load,   *)
(* manual rerun, chat submission).  st.session_state survives the reruns   *)
(* of a session; every module-level object (llm, tools, memory, agent,     *)
(* system_message) is rebuilt by each run.  A script run is taken to       *)
(* execute to its last line once started.                                  *)
(*                                                                         *)
(* Texts are sequences of tokens: the empty string is << >>, an f-string   *)
(* is the concatenation of its literal and interpolated parts.             *)
(***************************************************************************)
EXTENDS Integers, Sequences, FiniteSets, TLC

\* ---------------------------------------------------------------- bounds
MaxTurns == 2          \* user inputs submitted in one session
MaxDay == 2            \* distinct calendar days a session can span

\* ------------------------------------------------------------- constants
\* AgentExecutor built by initialize_agent (no max_iterations passed).
max_iterations == 15

None == "None"
NoText == << >>                         \* st.chat_input returned None
NoToolCall == [tool_name |-> None, input |-> << >>]
NoErr == << "<no exception>" >>

Inputs == { <<"a">>, <<"b">> }          \* st.chat_input never returns ""
Answers == { << >>, <<"ans">> }         \* final answers the model may give
ErrTexts == { << >>, <<"e">> }          \* str(e) of a raised exception
ToolNames == { "TavilySearch", "TavilyExtract" }

ErrPrefix == "Error: "
StoppedMsg == <<"Agent stopped due to iteration limit or time limit.">>

VARIABLES
    today,          \* value of datetime.datetime.today() at the last run
    inited,         \* "messages" in st.session_state
    messages,       \* st.session_state.messages
    memory,         \* ConversationBufferMemory of the current run
    shown,          \* chat bubbles on the page, in order
    pending,        \* value st.chat_input will return in the current run
    pc,             \* position of the script
    user_input,     \* line 86
    response_text,  \* line 96
    iterations,     \* AgentExecutor iteration counter of the current stream
    toolcall,       \* ToolCall being executed (None when there is none)
    request,        \* last request sent to the language model
    outcome,        \* how the current agent.stream ended
    failedTool,     \* tool that raised in the current turn
    lastErr,        \* str(e) caught by the except clause in the current turn
    streams,        \* agent.stream invocations for the current input
    processed       \* inputs accepted so far in the session

vars == << today, inited, messages, memory, shown, pending, pc, user_input,
           response_text, iterations, toolcall, request, outcome, failedTool,
           lastErr, streams, processed >>

turnvars == << user_input, response_text, iterations, toolcall, request,
               outcome, failedTool, lastErr, streams >>

\* --------------------------------------------------------------- helpers
Turn(r, c) == [role |-> r, content |-> c]

strftime(d) == << "2026-11-01", "2026-11-02", "2026-11-03", "2026-11-04" >>[d]

\* lines 50-59
SystemContent(d) ==
    << "You are a professional research assistant. Today's date is ",
       strftime(d),
       ". If the user asks for current information use TavilySearch ..." >>

\* lines 76-77 (mutant: the guard is dropped)
InitMessagesAlways(isInit, msgs, d) == << Turn("system", SystemContent(d)) >>

InitMessages(isInit, msgs, d) ==
    IF ~isInit THEN << Turn("system", SystemContent(d)) >> ELSE msgs

\* lines 80-83 (mutant: the role test is dropped)
RECURSIVE RenderAllFrom(_, _, _)
RenderAllFrom(msgs, i, out) ==
    IF i > Len(msgs) THEN out
    ELSE RenderAllFrom(msgs, i + 1, Append(out, msgs[i]))

RECURSIVE RenderFrom(_, _, _)
RenderFrom(msgs, i, out) ==
    IF i > Len(msgs) THEN out
    ELSE RenderFrom(msgs, i + 1,
                    IF msgs[i].role # "system" THEN Append(out, msgs[i])
                    ELSE out)

RenderAll(msgs) == RenderAllFrom(msgs, 1, << >>)

Render(msgs) == RenderFrom(msgs, 1, << >>)

\* line 106 (mutants: the prefix is dropped; the error text is dropped)
ErrMsgBare(e) == e

ErrMsgGeneric(e) == << ErrPrefix >>

ErrMsg(e) == << ErrPrefix >> \o e

\* AgentExecutor._should_continue (mutant: no iteration limit)
ShouldContinueForever(n) == TRUE

ShouldContinue(n) == n < max_iterations

\* line 88 (mutant: the input is stored twice)
SaveUserTwice(msgs, inp) == Append(Append(msgs, Turn("user", inp)), Turn("user", inp))

SaveUser(msgs, inp) == Append(msgs, Turn("user", inp))

\* line 110 (mutants: the answer replaces the last stored Turn; an empty
\* answer is not stored)
SaveAssistantOver(msgs, txt) ==
    [msgs EXCEPT ![Len(msgs)] = Turn("assistant", txt)]

SaveAssistantIfText(msgs, txt) ==
    IF txt = << >> THEN msgs ELSE Append(msgs, Turn("assistant", txt))

SaveAssistant(msgs, txt) == Append(msgs, Turn("assistant", txt))

\* The prompt of the ZERO_SHOT_REACT_DESCRIPTION agent: tool catalogue,
\* "Question: {input}" and the scratchpad.  Its only conversation Turn is the
\* question; neither system_message nor the memory's chat_history is in it.
AgentRequest(inp, n) ==
    [ turns |-> << Turn("user", inp) >>,
      tools |-> ToolNames,
      scratchpad |-> n ]

NoRequest == [ turns |-> << >>, tools |-> {}, scratchpad |-> 0 ]

Min(a, b) == IF a < b THEN a ELSE b

\* ------------------------------------------------------------------ Init
Init ==
    /\ today = 1
    /\ inited = FALSE
    /\ messages = << >>
    /\ memory = << >>
    /\ shown = << >>
    /\ pending = NoText
    /\ pc = "top"
    /\ user_input = NoText
    /\ response_text = << >>
    /\ iterations = 0
    /\ toolcall = NoToolCall
    /\ request = NoRequest
    /\ outcome = "none"
    /\ failedTool = None
    /\ lastErr = NoErr
    /\ streams = 0
    /\ processed = 0

\* --------------------------------------------------------------- actions
\* A page event starts a run of the script: a manual rerun (no chat value)
\* or a chat submission.
Rerun ==
    /\ pc = "idle"
    /\ pc' = "top"
    /\ pending' = NoText
    /\ UNCHANGED << today, inited, messages, memory, shown, processed >>
    /\ UNCHANGED turnvars

Submit ==
    /\ pc = "idle"
    /\ processed < MaxTurns
    /\ \E inp \in Inputs : pending' = inp
    /\ pc' = "top"
    /\ UNCHANGED << today, inited, messages, memory, shown, processed >>
    /\ UNCHANGED turnvars

\* lines 12-77: every run rebuilds the module-level objects; the names bound
\* by the previous run (user_input, response_text, the agent) are gone.
Top ==
    /\ pc = "top"
    /\ \E d \in today .. MaxDay :
          /\ today' = d
          /\ messages' = InitMessages(inited, messages, d)
    /\ inited' = TRUE
    /\ memory' = << >>
    /\ user_input' = NoText
    /\ response_text' = << >>
    /\ iterations' = 0
    /\ toolcall' = NoToolCall
    /\ request' = NoRequest
    /\ outcome' = "none"
    /\ failedTool' = None
    /\ lastErr' = NoErr
    /\ streams' = 0
    /\ pc' = "render"
    /\ UNCHANGED << shown, pending, processed >>

\* lines 79-83
RenderHistory ==
    /\ pc = "render"
    /\ shown' = Render(messages)
    /\ pc' = "input"
    /\ UNCHANGED << today, inited, messages, memory, pending, processed >>
    /\ UNCHANGED turnvars

\* line 86, no value: the run ends
NoInput ==
    /\ pc = "input"
    /\ pending = NoText
    /\ pc' = "idle"
    /\ UNCHANGED << today, inited, messages, memory, shown, pending, processed >>
    /\ UNCHANGED turnvars

\* lines 86-99: store and show the input, call agent.stream
ChatInput ==
    /\ pc = "input"
    /\ pending # NoText
    /\ user_input' = pending
    /\ pending' = NoText
    /\ messages' = SaveUser(messages, pending)
    /\ shown' = Append(shown, Turn("user", pending))
    /\ response_text' = << >>
    /\ iterations' = 0
    /\ toolcall' = NoToolCall
    /\ request' = NoRequest
    /\ outcome' = "none"
    /\ failedTool' = None
    /\ lastErr' = NoErr
    /\ streams' = 1
    /\ processed' = processed + 1
    /\ pc' = "agent"
    /\ UNCHANGED << today, inited, memory >>

\* One model call of the agent loop; the model asks for a tool.
ModelToolCall ==
    /\ pc = "agent"
    /\ ShouldContinue(iterations)
    /\ request' = AgentRequest(user_input, iterations)
    /\ \E t \in ToolNames, q \in Inputs :
          toolcall' = [tool_name |-> t, input |-> q]
    /\ pc' = "tool"
    /\ UNCHANGED << today, inited, messages, memory, shown, pending, processed,
                    user_input, response_text, iterations, outcome, failedTool,
                    lastErr, streams >>

\* The model's text cannot be parsed; handle_parsing_errors=True (line 68)
\* turns it into an observation and the loop goes on.
ModelParseError ==
    /\ pc = "agent"
    /\ ShouldContinue(iterations)
    /\ request' = AgentRequest(user_input, iterations)
    /\ iterations' = Min(iterations + 1, max_iterations)
    /\ UNCHANGED << today, inited, messages, memory, shown, pending, processed,
                    user_input, response_text, toolcall, outcome, failedTool,
                    lastErr, streams, pc >>

\* The model gives its final answer: the stream yields {"output": ...}
\* (lines 100-102) and the memory records the exchange.
ModelFinal ==
    /\ pc = "agent"
    /\ ShouldContinue(iterations)
    /\ request' = AgentRequest(user_input, iterations)
    /\ \E a \in Answers :
          /\ response_text' = a
          /\ shown' = Append(shown, Turn("assistant", a))
          /\ memory' = memory \o << Turn("human", user_input), Turn("ai", a) >>
    /\ outcome' = "final"
    /\ pc' = "save"
    /\ UNCHANGED << today, inited, messages, pending, processed, user_input,
                    iterations, toolcall, failedTool, lastErr, streams >>

\* The model call raises (after the client's own retries): lines 105-107.
ModelRaises ==
    /\ pc = "agent"
    /\ ShouldContinue(iterations)
    /\ request' = AgentRequest(user_input, iterations)
    /\ \E e \in ErrTexts :
          /\ response_text' = ErrMsg(e)
          /\ shown' = Append(shown, Turn("assistant", ErrMsg(e)))
          /\ lastErr' = e
    /\ outcome' = "llm_error"
    /\ pc' = "save"
    /\ UNCHANGED << today, inited, messages, memory, pending, processed,
                    user_input, iterations, toolcall, failedTool, streams >>

\* The iteration limit is reached: the executor yields its stopped response.
IterationLimit ==
    /\ pc = "agent"
    /\ ~ShouldContinue(iterations)
    /\ response_text' = StoppedMsg
    /\ shown' = Append(shown, Turn("assistant", StoppedMsg))
    /\ memory' = memory \o << Turn("human", user_input), Turn("ai", StoppedMsg) >>
    /\ outcome' = "limit"
    /\ pc' = "save"
    /\ UNCHANGED << today, inited, messages, pending, processed, user_input,
                    iterations, toolcall, request, failedTool, lastErr, streams >>

\* The tool returns: its output is an observation in the scratchpad.
ToolReturns ==
    /\ pc = "tool"
    /\ iterations' = Min(iterations + 1, max_iterations)
    /\ toolcall' = NoToolCall
    /\ pc' = "agent"
    /\ UNCHANGED << today, inited, messages, memory, shown, pending, processed,
                    user_input, response_text, request, outcome, failedTool,
                    lastErr, streams >>

\* The tool function raises.  The Tool objects of lines 27-44 set no
\* handle_tool_error, so the exception leaves agent.stream: lines 105-107.
ToolRaises ==
    /\ pc = "tool"
    /\ \E e \in ErrTexts :
          /\ response_text' = ErrMsg(e)
          /\ shown' = Append(shown, Turn("assistant", ErrMsg(e)))
          /\ lastErr' = e
    /\ failedTool' = toolcall.tool_name
    /\ toolcall' = NoToolCall
    /\ outcome' = "tool_error"
    /\ pc' = "save"
    /\ UNCHANGED << today, inited, messages, memory, pending, processed,
                    user_input, iterations, request, streams >>

\* line 110
SaveResponse ==
    /\ pc = "save"
    /\ messages' = SaveAssistant(messages, response_text)
    /\ pc' = "idle"
    /\ UNCHANGED << today, inited, memory, shown, pending, processed >>
    /\ UNCHANGED turnvars

ScriptStep ==
    \/ Top
    \/ RenderHistory
    \/ NoInput
    \/ ChatInput
    \/ ModelToolCall
    \/ ModelParseError
    \/ ModelFinal
    \/ ModelRaises
    \/ IterationLimit
    \/ ToolReturns
    \/ ToolRaises
    \/ SaveResponse

Next ==
    \/ Rerun
    \/ Submit
    \/ Top
    \/ RenderHistory
    \/ NoInput
    \/ ChatInput
    \/ ModelToolCall
    \/ ModelParseError
    \/ ModelFinal
    \/ ModelRaises
    \/ IterationLimit
    \/ ToolReturns
    \/ ToolRaises
    \/ SaveResponse

Spec == Init /\ [][Next]_vars

\* A started script run keeps executing; every external call returns or
\* raises (llm timeout=60, max_retries=2).  Page events are not forced.
LiveSpec == Init /\ [][Next]_vars /\ WF_vars(ScriptStep)

\* ------------------------------------------------------------ properties
Last(s) == s[Len(s)]

IsPrefix(s, t) == Len(s) <= Len(t) /\ SubSeq(t, 1, Len(s)) = s

IsUser(m) == m.role = "user"

IsAssistant(m) == m.role = "assistant"

NotSystem(m) == m.role # "system"

LastIs(P(_)) == Len(messages) > 0 /\ P(Last(messages))

Count(P(_)) == Len(SelectSeq(messages, P))

IsErrText(t) == Len(t) > 0 /\ t[1] = ErrPrefix

EndsWith(t, e) ==
    Len(e) <= Len(t) /\ SubSeq(t, Len(t) - Len(e) + 1, Len(t)) = e

\* C1: once the session is initialised the stored list is non-empty, its
\* first Turn has role "system", and no step of any run (rerun or processed
\* input) replaces, removes or moves that Turn.
C1_SystemTurnFixed ==
    /\ [](inited => /\ Len(messages) >= 1
                    /\ messages[1].role = "system"
                    /\ \E d \in 1 .. MaxDay :
                          messages[1].content = SystemContent(d))
    /\ [][inited => (/\ inited'
                     /\ Len(messages') >= 1
                     /\ messages'[1] = messages[1])]_vars

\* a later run on a later day, after a completed turn, with the first Turn
\* still the one of the first day
C1_Witness ==
    /\ pc = "idle"
    /\ today > 1
    /\ Len(messages) >= 3
    /\ messages[1].content = SystemContent(1)

\* C2: every processed input adds exactly one user Turn holding that input
\* and at most one assistant Turn; model calls and tool calls add nothing.
C2_OneUserAtMostOneAssistant ==
    /\ [](inited =>
            /\ Count(IsUser) = processed
            /\ Count(IsAssistant) <= processed
            /\ Len(messages) = 1 + Count(IsUser) + Count(IsAssistant)
            /\ \A i \in 2 .. Len(messages) :
                  IsAssistant(messages[i]) => ~IsAssistant(messages[i - 1]))
    /\ [][/\ (pc \in {"agent", "tool"} => messages' = messages)
          /\ (pc = "input" /\ pending # NoText =>
                 messages' = Append(messages, Turn("user", pending)))]_vars

\* a completed turn in which the agent made at least two tool rounds
C2_Witness ==
    /\ pc = "idle"
    /\ processed = 1
    /\ iterations >= 2
    /\ outcome = "final"
    /\ Len(messages) = 3

\* C3: when the search tool raises during a turn, the turn still ends and the
\* assistant Turn stored for it has non-empty content.
C3_SearchErrorStillAnswers ==
    /\ [](failedTool = "TavilySearch" /\ pc = "idle" =>
            /\ IsAssistant(Last(messages))
            /\ Len(Last(messages).content) > 0
            /\ IsUser(messages[Len(messages) - 1]))
    /\ (failedTool = "TavilySearch") ~> (pc = "idle")

\* the search tool raised an exception whose text is empty, and the turn ended
C3_Witness ==
    /\ failedTool = "TavilySearch"
    /\ lastErr = << >>
    /\ pc = "idle"

\* C4 (as claimed): a tool error is fed back to the model and the loop goes
\* on, so a turn in which a tool raised never ends on the handler's error
\* message.
C4_ToolErrorFedBack ==
    failedTool # None =>
        /\ outcome # "tool_error"
        /\ (pc \in {"save", "idle"} => ~IsErrText(response_text))

\* C5: when the model call raises, exactly one assistant Turn is stored for
\* the input, it is the error message holding the error text, and agent.stream
\* was called once for the input.
C5_ModelFailureOneErrorTurn ==
    outcome = "llm_error" /\ pc = "idle" =>
        /\ IsAssistant(Last(messages))
        /\ IsErrText(Last(messages).content)
        /\ EndsWith(Last(messages).content, lastErr)
        /\ Len(Last(messages).content) > Len(lastErr)
        /\ IsUser(messages[Len(messages) - 1])
        /\ messages[Len(messages) - 1].content = user_input
        /\ Count(IsAssistant) = processed
        /\ streams = 1

\* the model call raised with a non-empty error text, and the turn ended
C5_Witness ==
    /\ outcome = "llm_error"
    /\ lastErr = <<"e">>
    /\ pc = "idle"

\* C6: the agent loop is bounded by the executor's iteration limit; a turn
\* always ends, and a turn that hits the limit stores the executor's
\* "stopped" text as its assistant Turn.
C6_BoundedRounds ==
    /\ [](iterations <= max_iterations)
    /\ [](outcome = "limit" /\ pc = "idle" =>
            Last(messages) = Turn("assistant", StoppedMsg))
    /\ (pc = "agent") ~> (pc = "idle")

\* a turn that used up every round and ended
C6_Witness ==
    /\ outcome = "limit"
    /\ iterations = max_iterations
    /\ pc = "idle"

\* C7: the render loop shows exactly the stored Turns whose role is not
\* "system", in stored order, and leaves the stored list unchanged (so two
\* renderings of one list show the same).
C7_RenderPure ==
    [][pc = "render" =>
          /\ shown' = SelectSeq(messages, NotSystem)
          /\ messages' = messages]_vars

\* a rendering of a list holding a completed turn
C7_Witness ==
    /\ pc = "input"
    /\ Len(messages) = 3
    /\ Len(shown) = 2

\* C8 (as claimed): while a turn is processed, the request sent to the model
\* holds the whole stored list: system Turn, earlier Turns, the new user Turn.
C8_RequestHasFullHistory ==
    pc \in {"agent", "tool"} /\ request # NoRequest => request.turns = messages

====
